---- MODULE Spec2Model ----
(***************************************************************************)
(* State-machine model of the archiving dashboard page                     *)
(* (src/unnamed/part_001): the SearchableEmployeeSelect control, the       *)
(* EmployeeForm component and its DocumentViewerModal, and the list of     *)
(* DashboardView; and of the proxy route handler                           *)
(* (src/src/app/api/[...proxy]/route.ts).                                  *)
(*                                                                         *)
(* React state is held in variables named after the useState hooks.  The   *)
(* setters called from timers and promise callbacks are batched: the new   *)
(* values are in the state variables at once, and the values a handler     *)
(* closes over (and loadingStatusRef, assigned during render) are refreshed*)
(* by the Render step.  Discrete input events (typing) render              *)
(* synchronously, so the debounce effect runs inside those actions.        *)
(***************************************************************************)
EXTENDS Integers, Sequences, FiniteSets, TLC

\* ------------------------------------------------------------------ bounds
\* number of hr_employees requests one control issues in a run
MaxReq == 3
\* number of Pending attachment rows of the form
MaxDocs == 2
\* number of times the document viewer is opened in a run
MaxViews == 2

\* ------------------------------------------------------- SearchableEmployeeSelect
VARIABLES
    employees,        \* useState<HrEmployee[]>([])
    searchTerm,       \* useState('')
    page,             \* useState(1)
    hasMore,          \* useState(true)
    isLoading,        \* useState(false)
    isOpen,           \* useState(false)
    fetchController,  \* useRef<AbortController|null>: index into requests, 0 = null
    loadingStatusRef, \* useRef({isLoading, hasMore}), assigned at every render
    closure,          \* page and list length of the last render (what handleScroll and the DOM see)
    timer,            \* the debounce timeout: <<>> = none, <<t>> = armed, will fetch t
    requests,         \* every fetch issued: its arguments, its signal, its state
    lastCall,         \* the most recent fetchEmployees invocation and whether it returned early
    firedTerm         \* the text of the most recent firing of the debounce timer: <<>> or <<q>>

selectVars == <<employees, searchTerm, page, hasMore, isLoading, isOpen, fetchController,
                loadingStatusRef, closure, timer, requests, lastCall, firedTerm>>

\* state of EmployeeForm
VARIABLES
    employeeToEditId,  \* prop: 0 = new-record mode, else the id of the record being edited
    statuses,          \* useState({ employee_status: [] }): the names of the catalog entries
    docTypes,          \* useState({ all_types: [], types_with_expiry: [] })
    formData,          \* useState({ employee_id: '', name_en: '', ..., status_id: '' })
    existingDocuments, \* useState<ExistingDocument[]>([])
    newDocuments,      \* useState<NewDocument[]>([])
    deletedDocIds,     \* useState<number[]>([])
    isSubmitting,      \* useState(false)
    error,             \* useState('')
    isFormLocked,      \* useState(true)
    hydrated,          \* whether the fetch of /api/employees/{id} issued at mount has resolved
    profileFetches,    \* ids whose /api/hr_employees/{id} fetch (handleEmployeeSelect) is outstanding
    submission,        \* the create/update request in flight: <<>> or <<its method and body>>
    view,              \* DashboardPage view: "form" while the form is mounted
    isViewer,          \* user.security_level === 'Viewer'
    fileInputs,        \* the DOM value of the file input new-file-input-i of each rendered row
    lastIssued,        \* the id of the most recent handleEmployeeSelect call: <<>> or <<id>>
    toggled            \* the run of identical legislation toggles just made: <<>> or
                       \* <<[kind, key, leg, count, new, existing]>>, the lists as before the run

formVars == <<employeeToEditId, statuses, docTypes, formData, existingDocuments, newDocuments,
              deletedDocIds, isSubmitting, error, isFormLocked, hydrated, profileFetches,
              submission, view, isViewer, fileInputs, lastIssued, toggled>>

\* state of DocumentViewerModal, rendered by EmployeeForm while viewingDoc is set
VARIABLES
    viewingDoc,        \* EmployeeForm useState(null): <<>> or <<docnumber of the document shown>>
    contentUrl,        \* useState(''): 0 = '', -1 = the document's own URL, n > 0 = object URL n
    contentUrlUpdate,  \* a setContentUrl not yet rendered: <<>> or <<value>>
    docFetches,        \* every fetch of a document: its signal and how far its chain has got
    objectUrls,        \* the object URLs created by URL.createObjectURL
    revokedUrls        \* the object URLs revoked by URL.revokeObjectURL

modalVars == <<viewingDoc, contentUrl, contentUrlUpdate, docFetches, objectUrls, revokedUrls>>

\* one invocation of the proxy route handler
VARIABLES
    BACKEND_URL,       \* process.env.BACKEND_URL: "" if not configured
    proxyReq,          \* the request being handled: <<>> or <<[method, body]>>
    upstreamReq,       \* the fetch made to the backend for it: <<>> or <<[method, body]>>
    proxyRes           \* the NextResponse returned: <<>> or <<[status, body]>>

proxyVars == <<BACKEND_URL, proxyReq, upstreamReq, proxyRes>>

\* DashboardPage's refresh key and the state of DashboardView, mounted while view is
\* "dashboard"
VARIABLES
    dataRefreshKey,    \* DashboardPage useState(0)
    dashFilter,        \* DashboardView searchTerm, statusFilter and filterType ("" for '' or null)
    dashEmployees,     \* DashboardView useState<ArchivedEmployee[]>([])
    dashIsLoading,     \* DashboardView useState(true)
    dashRequests       \* every fetch of /api/employees?...: its filter and its state

dashVars == <<dataRefreshKey, dashFilter, dashEmployees, dashIsLoading, dashRequests>>

restVars == <<modalVars, proxyVars, dashVars>>

vars == <<selectVars, formVars, modalVars, proxyVars, dashVars>>

\* texts the user types into the input
TypedTerms == {"", "a"}

\* GET /api/hr_employees?search=q&page=p : the p-th page of the matches of q
ServerPage(q, p) == << [q |-> q, p |-> p] >>

NoCall == <<>>

Range(s) == {s[i] : i \in 1..Len(s)}

Pending(i) == requests[i].status = "pending"

\* requests whose fetch has not settled and whose signal is not aborted
Live == {i \in 1..Len(requests) : Pending(i) /\ ~requests[i].aborted}

\* fetchController.current.abort(): the signal of the current controller is set
Abort(reqs, fc) ==
    IF fc = 0 THEN reqs ELSE [reqs EXCEPT ![fc].aborted = TRUE]

\* fetchEmployees(currentSearch, currentPage, isNewSearch)
FetchEmployees(currentSearch, currentPage, isNewSearch) ==
    IF loadingStatusRef.isLoading \/ (~loadingStatusRef.hasMore /\ ~isNewSearch)
    THEN /\ lastCall' = << [isNewSearch |-> isNewSearch, issued |-> FALSE] >>
         /\ UNCHANGED <<requests, fetchController, isLoading>>
    ELSE /\ requests' = Append(Abort(requests, fetchController),
                               [search |-> currentSearch, page |-> currentPage,
                                isNewSearch |-> isNewSearch, aborted |-> FALSE,
                                status |-> "pending", before |-> employees])
         /\ fetchController' = Len(requests) + 1
         /\ isLoading' = TRUE
         /\ lastCall' = << [isNewSearch |-> isNewSearch, issued |-> TRUE] >>

\* the debounce effect: deps [searchTerm, fetchEmployees]; cleanup clears the old timeout
DebounceEffect(newTerm) ==
    timer' = IF newTerm = searchTerm THEN timer ELSE <<newTerm>>

\* what a render assigns: loadingStatusRef.current = { isLoading, hasMore }, and the
\* handlers of that render close over page and the listed employees
Rendered ==
    /\ loadingStatusRef' = [isLoading |-> isLoading', hasMore |-> hasMore']
    /\ closure' = [page |-> page', len |-> Len(employees')]

\* input onChange (the input is readOnly={disabled}): a discrete event, rendered before the handler returns; the batched
\* updates still pending are rendered long before the 300 ms timeout armed here
Edit(t) ==
    /\ UNCHANGED <<formVars, restVars>>
    /\ view = "form"
    /\ ~isViewer
    /\ t # searchTerm
    /\ searchTerm' = t
    /\ isOpen' = TRUE
    /\ DebounceEffect(t)
    /\ UNCHANGED <<employees, page, hasMore, isLoading, fetchController, requests,
                   lastCall, firedTerm>>
    /\ Rendered

\* the setTimeout callback of the debounce effect, 300 ms after the last edit
TimerFire ==
    /\ UNCHANGED <<formVars, restVars>>
    /\ view = "form"
    /\ timer # <<>>
    /\ Len(requests) < MaxReq
    /\ employees' = <<>>
    /\ page' = 1
    /\ hasMore' = TRUE
    /\ FetchEmployees(timer[1], 1, TRUE)
    /\ timer' = <<>>
    /\ firedTerm' = timer
    /\ UNCHANGED <<searchTerm, isOpen, loadingStatusRef, closure>>

\* handleScroll, on a scroll event that reaches the bottom of the list, rendered while
\* isOpen && !disabled
HandleScroll ==
    /\ UNCHANGED <<formVars, restVars>>
    /\ view = "form"
    /\ isOpen /\ ~isViewer
    /\ closure.len > 0
    /\ Len(requests) < MaxReq
    /\ loadingStatusRef.hasMore /\ ~loadingStatusRef.isLoading
    /\ page' = closure.page + 1
    /\ FetchEmployees(searchTerm, closure.page + 1, FALSE)
    /\ UNCHANGED <<employees, searchTerm, hasMore, isOpen, loadingStatusRef, closure,
                   timer, firedTerm>>

\* a render of the component: the ref and the handlers' closures take the current state
Render ==
    /\ UNCHANGED <<formVars, restVars>>
    /\ view = "form"
    /\ \/ loadingStatusRef # [isLoading |-> isLoading, hasMore |-> hasMore]
       \/ closure # [page |-> page, len |-> Len(employees)]
    /\ UNCHANGED <<employees, searchTerm, page, hasMore, isLoading, isOpen, fetchController,
                   timer, requests, lastCall, firedTerm>>
    /\ Rendered

\* how a fetch given { signal } can settle: an aborted signal rejects it with AbortError
Outcomes_NoSignal(r) == {"ok", "error"}

Outcomes(r) == IF r.aborted THEN {"abort"} ELSE {"ok", "error"}

\* the promise chain of fetchEmployees: .then(json).then(apply).catch(log).finally(...);
\* the setters of a component that is no longer mounted change nothing
Settle(i, outcome, more) ==
    /\ UNCHANGED <<formVars, restVars>>
    /\ i \in 1..Len(requests)
    /\ Pending(i)
    /\ outcome \in Outcomes(requests[i])
    /\ requests' = [requests EXCEPT
                      ![i].status = CASE outcome = "ok" -> "applied"
                                      [] outcome = "abort" -> "discarded"
                                      [] OTHER -> "failed"]
    /\ IF view = "form"
       THEN /\ IF outcome = "ok"
               THEN /\ employees' =
                         IF requests[i].isNewSearch
                         THEN ServerPage(requests[i].search, requests[i].page)
                         ELSE employees \o ServerPage(requests[i].search, requests[i].page)
                    /\ hasMore' = more
               ELSE UNCHANGED <<employees, hasMore>>
            /\ isLoading' = FALSE
       ELSE UNCHANGED <<employees, hasMore, isLoading>>
    /\ UNCHANGED <<searchTerm, page, isOpen, fetchController, loadingStatusRef, closure,
                   timer, lastCall, firedTerm>>

\* input onFocus
Focus ==
    /\ UNCHANGED <<formVars, restVars>>
    /\ view = "form"
    /\ ~isOpen
    /\ isOpen' = TRUE
    /\ UNCHANGED <<employees, searchTerm, page, hasMore, isLoading, fetchController,
                   loadingStatusRef, closure, timer, requests, lastCall, firedTerm>>

\* input onBlur, after its 200 ms timeout
Blur ==
    /\ UNCHANGED <<formVars, restVars>>
    /\ view = "form"
    /\ isOpen
    /\ isOpen' = FALSE
    /\ UNCHANGED <<employees, searchTerm, page, hasMore, isLoading, fetchController,
                   loadingStatusRef, closure, timer, requests, lastCall, firedTerm>>

\* SearchableEmployeeSelect unmounts with the form: the cleanup of the debounce effect
\* clears the timeout; no cleanup touches fetchController
SelectUnmounted ==
    /\ timer' = <<>>
    /\ UNCHANGED <<employees, searchTerm, page, hasMore, isLoading, isOpen, fetchController,
                   loadingStatusRef, closure, requests, lastCall, firedTerm>>

\* DocumentViewerModal unmounts: the cleanup of the fetch effect aborts its controller, the
\* cleanup of the [contentUrl] effect revokes the rendered contentUrl if it is an object
\* URL; state updates not yet rendered are dropped with the component
AbortDocFetches(fetches) ==
    [i \in 1..Len(fetches) |->
        IF fetches[i].stage \in {"fetch", "blob"}
        THEN [fetches[i] EXCEPT !.aborted = TRUE] ELSE fetches[i]]

ModalUnmounted ==
    /\ viewingDoc' = <<>>
    /\ docFetches' = AbortDocFetches(docFetches)
    /\ revokedUrls' = IF contentUrl > 0 THEN revokedUrls \cup {contentUrl} ELSE revokedUrls
    /\ contentUrl' = 0
    /\ contentUrlUpdate' = <<>>
    /\ UNCHANGED objectUrls

\* the filter of a freshly mounted DashboardView
NoFilter == [searchTerm |-> "", statusFilter |-> "", filterType |-> ""]

\* GET /api/employees?search=&status=&filter_type= : data.employees for filter f
ServerList(f) == << f >>

\* the list effect, deps [dataRefreshKey, searchTerm, statusFilter, filterType]:
\* setIsLoading(true) and a fetch for the filter of the render it runs after
ListEffect(f) ==
    /\ dashFilter' = f
    /\ dashIsLoading' = TRUE
    /\ dashRequests' = Append(dashRequests, [filter |-> f, status |-> "pending"])

\* DashboardView mounts: its state is the initial one and the list effect runs
DashboardMounted ==
    /\ dashEmployees' = <<>>
    /\ ListEffect(NoFilter)

\* DashboardPage.handleBackFromForm, the form's Back button: the form is unmounted and
\* DashboardView is mounted
HandleBackFromForm ==
    /\ view = "form"
    /\ view' = "dashboard"
    /\ SelectUnmounted
    /\ ModalUnmounted
    /\ DashboardMounted
    /\ UNCHANGED <<proxyVars, dataRefreshKey>>
    /\ UNCHANGED <<employeeToEditId, statuses, docTypes, formData, existingDocuments,
                   newDocuments, deletedDocIds, isSubmitting, error, isFormLocked, hydrated,
                   profileFetches, submission, isViewer, fileInputs, lastIssued, toggled>>

InitSelect ==
    /\ employees = <<>>
    /\ searchTerm = ""
    /\ page = 1
    /\ hasMore = TRUE
    /\ isLoading = FALSE
    /\ isOpen = FALSE
    /\ fetchController = 0
    /\ loadingStatusRef = [isLoading |-> FALSE, hasMore |-> TRUE]
    /\ closure = [page |-> 1, len |-> 0]
    /\ timer = << "" >>
    /\ requests = <<>>
    /\ lastCall = NoCall
    /\ firedTerm = <<>>

\* ------------------------------------------------------------------ EmployeeForm
\* n.toString() and parseInt(s, 10) on the ids of the catalogs; parseInt('') is NaN (falsy)
ToStr(n) == <<"1", "2", "3", "4", "5">>[n]

ParseInt(s) == IF s = "" THEN 0 ELSE CHOOSE n \in 1..5 : ToStr(n) = s

\* GET /api/document_types
AllTypes == << [system_id |-> 1, name |-> "Judicial Card"],
               [system_id |-> 2, name |-> "Warrant Decisions"],
               [system_id |-> 3, name |-> "Other"] >>

DocTypeCatalog == [all_types |-> AllTypes, types_with_expiry |-> << AllTypes[1], AllTypes[2] >>]

\* a catalog in which no type is named as the warrant-decision type
NoWarrantCatalog == [all_types |-> << AllTypes[1], AllTypes[3] >>,
                     types_with_expiry |-> << AllTypes[1] >>]

DocTypeCatalogs == {DocTypeCatalog, NoWarrantCatalog}

EmptyDocTypes == [all_types |-> <<>>, types_with_expiry |-> <<>>]

\* GET /api/statuses: name_english of the entries; system_id of an entry
StatusCatalogs == { {"Active", "Inactive"} }

StatusId(name) == IF name = "Active" THEN 1 ELSE 2

\* GET /api/legislations
LegislationIds == {1, 2}

\* base identities offered by the picker, and the record edited in edit mode
HrIds == {"42", "43"}

EditId == 7

\* GET /api/employees/{id}: the documents the record may hold
ServerDocs == << [system_id |-> 11, doc_type_id |-> 1, legislation_ids |-> <<>>,
                  doc_name |-> "Judicial Card"],
                 [system_id |-> 12, doc_type_id |-> 2, legislation_ids |-> <<1>>,
                  doc_name |-> "Warrant Decisions"] >>

HydrateDocs == { <<>>, <<ServerDocs[1]>>, <<ServerDocs[2]>>, ServerDocs }

EmptyForm == [employee_id |-> "", name_en |-> "", status_id |-> ""]

\* name.includes(...), name.toLowerCase().includes('other') on the names of the catalog
IsJudicialCardName(name) == name = "Judicial Card"

IsWarrantDecisionName(name) == name = "Warrant Decisions"

IncludesOther(name) == name = "Other"

\* all_types.find(pred)?.system_id, hits being the indexes pred accepts; 0 stands for
\* undefined
FindTypeId(types, hits) ==
    IF hits = {} THEN 0
    ELSE types[CHOOSE i \in hits : \A j \in hits : i <= j].system_id

\* useMemo values of one render
JudicialCardDocTypeIdOf(dt) ==
    FindTypeId(dt.all_types,
               {i \in 1..Len(dt.all_types) : IsJudicialCardName(dt.all_types[i].name)})

WarrantDecisionDocTypeIdOf(dt) ==
    FindTypeId(dt.all_types,
               {i \in 1..Len(dt.all_types) : IsWarrantDecisionName(dt.all_types[i].name)})

judicialCardDocTypeId == JudicialCardDocTypeIdOf(docTypes)

warrantDecisionDocTypeId == WarrantDecisionDocTypeIdOf(docTypes)

expiryDocTypeIds == {docTypes.types_with_expiry[i].system_id :
                        i \in 1..Len(docTypes.types_with_expiry)}

\* the derived-status effect, run after a render in which one of its deps changed:
\* the value of formData it leaves
DerivedStatus_NoRecompute(fd, existing, new, locked, sts, jid) == fd

DerivedStatus(fd, existing, new, locked, sts, jid) ==
    IF locked \/ jid = 0 \/ sts = {} THEN fd
    ELSE LET hasJudicialCard ==
                \/ \E i \in 1..Len(existing) : existing[i].doc_type_id = jid
                \/ \E i \in 1..Len(new) : new[i].doc_type_id = ToStr(jid)
         IN IF hasJudicialCard /\ "Active" \in sts
            THEN [fd EXCEPT !.status_id = ToStr(StatusId("Active"))]
            ELSE IF ~hasJudicialCard /\ "Inactive" \in sts
            THEN [fd EXCEPT !.status_id = ToStr(StatusId("Inactive"))]
            ELSE fd

\* formData after the commit of an action: fd is what the action's setters leave,
\* deps tells whether a dependency of the derived-status effect changed identity
AfterEffects(fd, deps) ==
    formData' = IF deps
                THEN DerivedStatus(fd, existingDocuments', newDocuments', isFormLocked',
                                   statuses', JudicialCardDocTypeIdOf(docTypes'))
                ELSE fd

\* the mount effect: the catalog fetches resolve
LoadStatuses(cat) ==
    /\ UNCHANGED <<selectVars, isViewer, fileInputs, lastIssued, restVars>>
    /\ toggled' = <<>>
    /\ view = "form"
    /\ statuses = {}
    /\ statuses' = cat
    /\ UNCHANGED <<employeeToEditId, docTypes, existingDocuments, newDocuments, deletedDocIds,
                   isSubmitting, error, isFormLocked, hydrated, profileFetches, submission, view>>
    /\ AfterEffects(formData, TRUE)

LoadDocTypesOf(cat) ==
    /\ UNCHANGED <<selectVars, isViewer, fileInputs, lastIssued, restVars>>
    /\ toggled' = <<>>
    /\ view = "form"
    /\ docTypes = EmptyDocTypes
    /\ docTypes' = cat
    /\ UNCHANGED <<employeeToEditId, statuses, existingDocuments, newDocuments, deletedDocIds,
                   isSubmitting, error, isFormLocked, hydrated, profileFetches, submission, view>>
    /\ AfterEffects(formData, JudicialCardDocTypeIdOf(cat) # judicialCardDocTypeId)

LoadDocTypes == LoadDocTypesOf(DocTypeCatalog)

\* the mount effect in edit mode: the fetch of the record resolves
Hydrate(status, docs) ==
    /\ UNCHANGED <<selectVars, isViewer, fileInputs, lastIssued, restVars>>
    /\ toggled' = <<>>
    /\ view = "form"
    /\ employeeToEditId # 0
    /\ ~hydrated
    /\ hydrated' = TRUE
    /\ existingDocuments' = docs
    /\ UNCHANGED <<employeeToEditId, statuses, docTypes, newDocuments, deletedDocIds,
                   isSubmitting, error, isFormLocked, profileFetches, submission, view>>
    /\ AfterEffects([employee_id |-> "42", name_en |-> "42", status_id |-> status],
                    TRUE)

\* the controls that change the record are rendered and enabled: {!isViewer && (...)},
\* disabled={isViewer}
CanEdit_Always == TRUE

CanEdit == ~isViewer

\* handleEmployeeSelect unlocking the form at the call instead of after the profile arrived
HandleEmployeeSelect_UnlockAtCall(employeeId) ==
    /\ UNCHANGED <<selectVars, isViewer, fileInputs, restVars>>
    /\ lastIssued' = IF employeeId = "" THEN lastIssued ELSE <<employeeId>>
    /\ CanEdit
    /\ toggled' = <<>>
    /\ view = "form"
    /\ employeeToEditId = 0
    /\ isFormLocked' = (employeeId = "")
    /\ profileFetches' = IF employeeId = "" THEN profileFetches
                         ELSE profileFetches \cup {employeeId}
    /\ UNCHANGED <<employeeToEditId, statuses, docTypes, existingDocuments, newDocuments,
                   deletedDocIds, isSubmitting, error, hydrated, submission, view>>
    /\ AfterEffects(formData, isFormLocked' # isFormLocked)

\* handleEmployeeSelect up to its first await
EmployeeSelectCall(employeeId) ==
    /\ UNCHANGED <<isViewer, fileInputs, restVars>>
    /\ lastIssued' = IF employeeId = "" THEN lastIssued ELSE <<employeeId>>
    /\ CanEdit
    /\ toggled' = <<>>
    /\ view = "form"
    /\ employeeToEditId = 0
    /\ IF employeeId = ""
       THEN /\ isFormLocked' = TRUE
            /\ UNCHANGED profileFetches
       ELSE /\ profileFetches' = profileFetches \cup {employeeId}
            /\ UNCHANGED isFormLocked
    /\ UNCHANGED <<employeeToEditId, statuses, docTypes, existingDocuments, newDocuments,
                   deletedDocIds, isSubmitting, error, hydrated, submission, view>>
    /\ AfterEffects(formData, isFormLocked' # isFormLocked)

\* the callback invoked on its own, the picker left as it is
HandleEmployeeSelect(employeeId) ==
    /\ UNCHANGED selectVars
    /\ EmployeeSelectCall(employeeId)

\* what handleSelect reads from the picked item: employee.system_id.toString() and
\* `${employee.fullname_en} (${employee.empno})`
EmployeeIdOf(employee) == IF employee.p = 1 THEN "42" ELSE "43"

LabelOf(employee) == "n (e)"

\* SearchableEmployeeSelect.handleSelect, onMouseDown on item i of the rendered list (the
\* list is rendered while isOpen && !disabled); a discrete event, rendered at once
HandleSelect(i) ==
    /\ isOpen /\ ~isViewer
    /\ i \in 1..Len(employees)
    /\ i <= closure.len
    /\ searchTerm' = LabelOf(employees[i])
    /\ DebounceEffect(LabelOf(employees[i]))
    /\ isOpen' = FALSE
    /\ UNCHANGED <<employees, page, hasMore, isLoading, fetchController, requests,
                   lastCall, firedTerm>>
    /\ Rendered
    /\ EmployeeSelectCall(EmployeeIdOf(employees[i]))

\* handleEmployeeSelect applying a profile only if it answers the most recent call
ProfileResponse_LatestIssued(employeeId) ==
    /\ UNCHANGED <<selectVars, isViewer, fileInputs, lastIssued, restVars>>
    /\ toggled' = <<>>
    /\ view = "form"
    /\ employeeId \in profileFetches
    /\ profileFetches' = profileFetches \ {employeeId}
    /\ isFormLocked' = FALSE
    /\ UNCHANGED <<employeeToEditId, statuses, docTypes, existingDocuments, newDocuments,
                   deletedDocIds, isSubmitting, error, hydrated, submission, view>>
    /\ AfterEffects(IF lastIssued = <<employeeId>>
                    THEN [employee_id |-> employeeId, name_en |-> employeeId, status_id |-> ""]
                    ELSE formData,
                    isFormLocked' # isFormLocked)

\* handleEmployeeSelect after res.json(): setFormData({...}); setIsFormLocked(false)
ProfileResponse(employeeId) ==
    /\ UNCHANGED <<selectVars, isViewer, fileInputs, lastIssued, restVars>>
    /\ toggled' = <<>>
    /\ view = "form"
    /\ employeeId \in profileFetches
    /\ profileFetches' = profileFetches \ {employeeId}
    /\ isFormLocked' = FALSE
    /\ UNCHANGED <<employeeToEditId, statuses, docTypes, existingDocuments, newDocuments,
                   deletedDocIds, isSubmitting, error, hydrated, submission, view>>
    /\ AfterEffects([employee_id |-> employeeId, name_en |-> employeeId, status_id |-> ""],
                    isFormLocked' # isFormLocked)


\* usedDocTypeIds: the type ids held by an attachment that is not of the 'other' type
UsedDocTypeIds(existing, new) ==
    {existing[i].doc_type_id : i \in {j \in 1..Len(existing) :
                                        ~IncludesOther(existing[j].doc_name)}}
    \cup {ParseInt(new[i].doc_type_id) : i \in {j \in 1..Len(new) :
                                        /\ ParseInt(new[j].doc_type_id) # 0
                                        /\ ~IncludesOther(new[j].doc_type_name)}}

usedDocTypeIds == UsedDocTypeIds(existingDocuments, newDocuments)

\* the disabled attribute of an <option> of the document-type select of row doc
OptionDisabled_Never(type, doc) == FALSE

OptionDisabled(type, doc) ==
    /\ type.system_id \in usedDocTypeIds
    /\ ToStr(type.system_id) # doc.doc_type_id

\* what the user can choose in the document-type select of row doc
SelectableTypeValues(doc) ==
    {""} \cup {ToStr(docTypes.all_types[i].system_id) :
                 i \in {j \in 1..Len(docTypes.all_types) :
                          ~OptionDisabled(docTypes.all_types[j], doc)}}

\* docTypes.all_types.find(dt => dt.system_id.toString() === value)?.name ; '' if none
TypeNameOf(value) ==
    LET hits == {i \in 1..Len(docTypes.all_types) :
                   ToStr(docTypes.all_types[i].system_id) = value}
    IN IF hits = {} THEN ""
       ELSE docTypes.all_types[CHOOSE i \in hits : \A j \in hits : i <= j].name

\* allowedTypes of handleNewDocumentChange
AllowedTypes_AnyFile == {"image/jpeg", "image/png", "application/pdf", "text/plain"}

AllowedTypes == {"image/jpeg", "image/png", "application/pdf"}

\* files the user may pick (File.type)
PickedFileTypes == {"image/png", "text/plain"}

ExpiryValues == {"", "2030-01-01"}

EmptyRow == [doc_type_id |-> "", doc_type_name |-> "", file |-> "", expiry |-> "",
             legislation_ids |-> <<>>]

Includes(seq, x) == \E i \in 1..Len(seq) : seq[i] = x

\* ids.filter(id => id !== x)
Without(seq, x) ==
    LET F[i \in 0..Len(seq)] ==
          IF i = 0 THEN <<>>
          ELSE IF seq[i] # x THEN Append(F[i - 1], seq[i]) ELSE F[i - 1]
    IN F[Len(seq)]

\* isChecked ? ids.filter(id => id !== legId) : [...ids, legId]
Toggle_AppendOnly(ids, legId) == Append(ids, legId)

Toggle(ids, legId) ==
    IF Includes(ids, legId) THEN Without(ids, legId) ELSE Append(ids, legId)

\* the record of a toggle of leg on attachment (kind, key): a second identical toggle in a
\* row continues the run, anything else starts a new one
Track(kind, key, leg) ==
    IF /\ toggled # <<>>
       /\ toggled[1].kind = kind /\ toggled[1].key = key /\ toggled[1].leg = leg
       /\ toggled[1].count = 1
    THEN << [toggled[1] EXCEPT !.count = 2] >>
    ELSE << [kind |-> kind, key |-> key, leg |-> leg, count |-> 1,
             new |-> newDocuments, existing |-> existingDocuments] >>

\* addNewDocumentRow
AddNewDocumentRow ==
    /\ UNCHANGED <<selectVars, isViewer, lastIssued, restVars>>
    /\ fileInputs' = Append(fileInputs, "")
    /\ CanEdit
    /\ toggled' = <<>>
    /\ view = "form"
    /\ ~isFormLocked
    /\ Len(newDocuments) < MaxDocs
    /\ newDocuments' = Append(newDocuments, EmptyRow)
    /\ UNCHANGED <<employeeToEditId, statuses, docTypes, existingDocuments, deletedDocIds,
                   isSubmitting, error, isFormLocked, hydrated, profileFetches, submission,
                   view>>
    /\ AfterEffects(formData, TRUE)

\* handleNewDocumentChange(index, 'doc_type_id', value) without line 514
SetDocType_KeepLegislation(docs, index, value) ==
    [docs EXCEPT ![index] =
        [@ EXCEPT !.doc_type_id = value, !.doc_type_name = TypeNameOf(value)]]

\* handleNewDocumentChange(index, 'doc_type_id', value): the list it sets
SetDocType(docs, index, value) ==
    [docs EXCEPT ![index] =
        [@ EXCEPT !.doc_type_id = value,
                  !.doc_type_name = TypeNameOf(value),
                  !.legislation_ids =
                      IF warrantDecisionDocTypeId # 0 /\ value = ToStr(warrantDecisionDocTypeId)
                      THEN @ ELSE <<>>]]

\* handleNewDocumentChange(index, 'legislation_ids', legId): the list it sets
ToggleNewLegislation(docs, index, legId) ==
    [docs EXCEPT ![index].legislation_ids = Toggle(@, ToStr(legId))]

\* the file inputs after a change event of row index: they are uncontrolled, the browser
\* holds the picked file and handleNewDocumentChange empties the input of a rejected one
FileInputsAfter(index, field, value) ==
    IF field = "file"
    THEN [fileInputs EXCEPT ![index] = IF value \in AllowedTypes THEN value ELSE ""]
    ELSE fileInputs

\* handleNewDocumentChange(index, field, value), as the controls of row index call it
HandleNewDocumentChange(index, field, value) ==
    /\ UNCHANGED <<selectVars, isViewer, lastIssued, restVars>>
    /\ CanEdit
    /\ view = "form"
    /\ ~isFormLocked
    /\ index \in 1..Len(newDocuments)
    /\ fileInputs' = FileInputsAfter(index, field, value)
    /\ toggled' = IF field = "legislation_ids" THEN Track("new", index, value) ELSE <<>>
    /\ UNCHANGED <<employeeToEditId, statuses, docTypes, existingDocuments, deletedDocIds,
                   isSubmitting, isFormLocked, hydrated, profileFetches, submission, view>>
    /\ CASE field = "doc_type_id" ->
              /\ value \in SelectableTypeValues(newDocuments[index])
              /\ value # newDocuments[index].doc_type_id
              /\ newDocuments' = SetDocType(newDocuments, index, value)
              /\ error' = ""
              /\ AfterEffects(formData, TRUE)
         [] field = "file" ->
              /\ value \in PickedFileTypes
              /\ IF value \in AllowedTypes
                 THEN /\ newDocuments' = [newDocuments EXCEPT ![index].file = value]
                      /\ error' = ""
                      /\ AfterEffects(formData, TRUE)
                 ELSE /\ error' = "Invalid file type."
                      /\ UNCHANGED newDocuments
                      /\ AfterEffects(formData, FALSE)
         [] field = "expiry" ->
              /\ ParseInt(newDocuments[index].doc_type_id) \in expiryDocTypeIds
              /\ value \in ExpiryValues
              /\ value # newDocuments[index].expiry
              /\ newDocuments' = [newDocuments EXCEPT ![index].expiry = value]
              /\ error' = ""
              /\ AfterEffects(formData, TRUE)
         [] field = "legislation_ids" ->
              /\ warrantDecisionDocTypeId # 0
              /\ newDocuments[index].doc_type_id = ToStr(warrantDecisionDocTypeId)
              /\ value \in LegislationIds
              /\ newDocuments' = ToggleNewLegislation(newDocuments, index, value)
              /\ error' = ""
              /\ AfterEffects(formData, TRUE)

\* removeNewDocumentRow(index); the rows are keyed by index, so the DOM of the last row is
\* the one React removes
RemoveNewDocumentRow(index) ==
    /\ UNCHANGED <<selectVars, isViewer, lastIssued, restVars>>
    /\ CanEdit
    /\ toggled' = <<>>
    /\ view = "form"
    /\ ~isFormLocked
    /\ index \in 1..Len(newDocuments)
    /\ fileInputs' = SubSeq(fileInputs, 1, Len(fileInputs) - 1)
    /\ newDocuments' = SubSeq(newDocuments, 1, index - 1)
                       \o SubSeq(newDocuments, index + 1, Len(newDocuments))
    /\ UNCHANGED <<employeeToEditId, statuses, docTypes, existingDocuments, deletedDocIds,
                   isSubmitting, error, isFormLocked, hydrated, profileFetches, submission,
                   view>>
    /\ AfterEffects(formData, TRUE)

\* handleExistingDocLegislationChange(docSystemId, legislationId): the list it sets
ToggleExistingLegislation(docs, docSystemId, legislationId) ==
    [i \in 1..Len(docs) |->
        IF docs[i].system_id = docSystemId
        THEN [docs[i] EXCEPT !.legislation_ids = Toggle(@, legislationId)]
        ELSE docs[i]]

\* the legislation checkbox of a Persisted warrant-decision attachment
HandleExistingDocLegislationChange(docSystemId, legislationId) ==
    /\ UNCHANGED <<selectVars, isViewer, fileInputs, lastIssued, restVars>>
    /\ CanEdit
    /\ toggled' = Track("existing", docSystemId, legislationId)
    /\ view = "form"
    /\ ~isFormLocked
    /\ employeeToEditId # 0
    /\ warrantDecisionDocTypeId # 0
    /\ \E i \in 1..Len(existingDocuments) :
          /\ existingDocuments[i].system_id = docSystemId
          /\ existingDocuments[i].doc_type_id = warrantDecisionDocTypeId
    /\ existingDocuments' = ToggleExistingLegislation(existingDocuments, docSystemId,
                                                      legislationId)
    /\ UNCHANGED <<employeeToEditId, statuses, docTypes, newDocuments, deletedDocIds,
                   isSubmitting, error, isFormLocked, hydrated, profileFetches, submission,
                   view>>
    /\ AfterEffects(formData, TRUE)

\* prev.filter(doc => doc.system_id !== docId)
RemoveExisting_Keep(docs, docId) == docs

RemoveExisting(docs, docId) ==
    LET F[i \in 0..Len(docs)] ==
          IF i = 0 THEN <<>>
          ELSE IF docs[i].system_id # docId THEN Append(F[i - 1], docs[i]) ELSE F[i - 1]
    IN F[Len(docs)]

\* handleDeleteExistingDoc(docId), from the trash button of a listed Persisted attachment
HandleDeleteExistingDoc(docId) ==
    /\ UNCHANGED <<selectVars, isViewer, fileInputs, lastIssued, restVars>>
    /\ CanEdit
    /\ toggled' = <<>>
    /\ view = "form"
    /\ ~isFormLocked
    /\ employeeToEditId # 0
    /\ \E i \in 1..Len(existingDocuments) : existingDocuments[i].system_id = docId
    /\ existingDocuments' = RemoveExisting(existingDocuments, docId)
    /\ deletedDocIds' = Append(deletedDocIds, docId)
    /\ UNCHANGED <<employeeToEditId, statuses, docTypes, newDocuments, isSubmitting, error,
                   isFormLocked, hydrated, profileFetches, submission, view>>
    /\ AfterEffects(formData, TRUE)


Min(S) == CHOOSE x \in S : \A y \in S : x <= y

\* the checks of handleSubmit, reporting the last row without its expiry date
ValidationError_LastRow(fd, docs) ==
    IF fd.employee_id = "" THEN "An employee must be selected."
    ELSE LET bad == {i \in 1..Len(docs) :
                       /\ docs[i].doc_type_id # ""
                       /\ ParseInt(docs[i].doc_type_id) \in expiryDocTypeIds
                       /\ docs[i].expiry = ""}
         IN IF bad = {} THEN ""
            ELSE "Expiry date is required for document type \""
                 \o docs[CHOOSE x \in bad : \A y \in bad : y <= x].doc_type_name \o "\"."

\* the checks of handleSubmit before setIsSubmitting(true): the message set, '' if none
ValidationError(fd, docs) ==
    IF fd.employee_id = "" THEN "An employee must be selected."
    ELSE LET bad == {i \in 1..Len(docs) :
                       /\ docs[i].doc_type_id # ""
                       /\ ParseInt(docs[i].doc_type_id) \in expiryDocTypeIds
                       /\ docs[i].expiry = ""}
         IN IF bad = {} THEN ""
            ELSE "Expiry date is required for document type \""
                 \o TypeNameOf(docs[Min(bad)].doc_type_id) \o "\"."

\* the request of handleSubmit with updated_documents listing every Persisted attachment
SubmissionData_AllPersisted ==
    [method |-> IF employeeToEditId # 0 THEN "PUT" ELSE "POST",
     id |-> employeeToEditId,
     employee_data |-> formData,
     new_documents |->
        {[index |-> i - 1,
          file |-> newDocuments[i].file,
          doc_type_id |-> newDocuments[i].doc_type_id,
          doc_type_name |-> newDocuments[i].doc_type_name,
          expiry |-> newDocuments[i].expiry,
          legislation_ids |-> newDocuments[i].legislation_ids] :
            i \in {j \in 1..Len(newDocuments) :
                     newDocuments[j].file # "" /\ newDocuments[j].doc_type_id # ""}},
     deleted_documents |-> deletedDocIds,
     has_updated_documents |-> employeeToEditId # 0,
     updated_documents |->
        IF employeeToEditId # 0
        THEN {[system_id |-> existingDocuments[i].system_id,
               legislation_ids |-> existingDocuments[i].legislation_ids] :
                 i \in 1..Len(existingDocuments)}
        ELSE {}]

\* the request handleSubmit issues: its method, the id in its URL and its multipart body
SubmissionData ==
    [method |-> IF employeeToEditId # 0 THEN "PUT" ELSE "POST",
     id |-> employeeToEditId,
     employee_data |-> formData,
     new_documents |->
        {[index |-> i - 1,
          file |-> newDocuments[i].file,
          doc_type_id |-> newDocuments[i].doc_type_id,
          doc_type_name |-> newDocuments[i].doc_type_name,
          expiry |-> newDocuments[i].expiry,
          legislation_ids |-> newDocuments[i].legislation_ids] :
            i \in {j \in 1..Len(newDocuments) :
                     newDocuments[j].file # "" /\ newDocuments[j].doc_type_id # ""}},
     deleted_documents |-> deletedDocIds,
     has_updated_documents |-> employeeToEditId # 0,
     updated_documents |->
        IF employeeToEditId # 0
        THEN {[system_id |-> existingDocuments[i].system_id,
               legislation_ids |-> existingDocuments[i].legislation_ids] :
                 i \in {j \in 1..Len(existingDocuments) :
                          existingDocuments[j].doc_type_id = warrantDecisionDocTypeId}}
        ELSE {}]

\* the submit button: disabled={isSubmitting || isFormLocked}
SubmitEnabled_WhileSubmitting == ~isFormLocked

SubmitEnabled == ~isSubmitting /\ ~isFormLocked

\* handleSubmit up to its await, from the submit button (disabled while submitting or locked)
HandleSubmit ==
    /\ UNCHANGED <<selectVars, isViewer, fileInputs, lastIssued, restVars>>
    /\ toggled' = <<>>
    /\ view = "form"
    /\ SubmitEnabled
    /\ LET msg == ValidationError(formData, newDocuments)
       IN IF isViewer
          THEN UNCHANGED <<error, isSubmitting, submission>>
          ELSE IF msg # ""
          THEN /\ error' = msg
               /\ UNCHANGED <<isSubmitting, submission>>
          ELSE /\ error' = ""
               /\ isSubmitting' = TRUE
               /\ submission' = Append(submission, SubmissionData)
    /\ UNCHANGED <<employeeToEditId, statuses, docTypes, formData, existingDocuments,
                   newDocuments, deletedDocIds, isFormLocked, hydrated, profileFetches, view>>

\* handleSubmit after its await: response.ok (onFormSubmit(); onBack()), a non-success
\* response, or fetch rejecting; onFormSubmit is DashboardPage.handleFormSubmit, which
\* re-runs the list effect of a mounted DashboardView
SubmitResponse(kind) ==
    /\ UNCHANGED <<isViewer, fileInputs, lastIssued, proxyVars>>
    /\ IF kind = "ok" /\ view = "form"
       THEN SelectUnmounted /\ ModalUnmounted
       ELSE UNCHANGED <<selectVars, modalVars>>
    /\ IF kind = "ok"
       THEN /\ dataRefreshKey' = dataRefreshKey + 1
            /\ IF view = "form"
               THEN DashboardMounted
               ELSE ListEffect(dashFilter) /\ UNCHANGED dashEmployees
       ELSE UNCHANGED dashVars
    /\ toggled' = <<>>
    /\ submission # <<>>
    /\ submission' = Tail(submission)
    /\ CASE kind = "ok" ->
              /\ view' = "dashboard"
              /\ isSubmitting' = FALSE
              /\ UNCHANGED error
         [] kind = "error" ->
              /\ error' = "backend error"
              /\ isSubmitting' = FALSE
              /\ UNCHANGED view
         [] kind = "rejected" ->
              UNCHANGED <<view, isSubmitting, error>>
    /\ UNCHANGED <<employeeToEditId, statuses, docTypes, formData, existingDocuments,
                   newDocuments, deletedDocIds, isFormLocked, hydrated, profileFetches>>

InitForm ==
    /\ employeeToEditId \in {0, EditId}
    /\ statuses = {}
    /\ docTypes = EmptyDocTypes
    /\ formData = EmptyForm
    /\ existingDocuments = <<>>
    /\ newDocuments = <<>>
    /\ deletedDocIds = <<>>
    /\ isSubmitting = FALSE
    /\ error = ""
    /\ isFormLocked = (employeeToEditId = 0)
    /\ hydrated = FALSE
    /\ profileFetches = {}
    /\ submission = <<>>
    /\ view = "form"
    /\ isViewer \in BOOLEAN
    /\ fileInputs = <<>>
    /\ lastIssued = <<>>
    /\ toggled = <<>>

\* ------------------------------------------------------------- DocumentViewerModal
\* the eye button of a Persisted attachment: setViewingDoc({ url, name }); the modal mounts
\* and its fetch effect starts fetch(docUrl, { signal })
OpenViewer(doc) ==
    /\ view = "form"
    /\ viewingDoc = <<>>
    /\ Len(docFetches) < MaxViews
    /\ \E i \in 1..Len(existingDocuments) : existingDocuments[i].system_id = doc
    /\ viewingDoc' = <<doc>>
    /\ docFetches' = Append(docFetches, [doc |-> doc, aborted |-> FALSE, stage |-> "fetch"])
    /\ UNCHANGED <<contentUrl, contentUrlUpdate, objectUrls, revokedUrls>>
    /\ UNCHANGED <<selectVars, formVars, proxyVars, dashVars>>

\* the first .then of the fetch effect, or the rejection of the fetch: kind is what arrives
\* ("image": ok with an image/* Content-Type, "other": ok with another type, "notok",
\* "error"); an aborted signal rejects the fetch with AbortError
DocResponse(i, kind) ==
    /\ i \in 1..Len(docFetches)
    /\ docFetches[i].stage = "fetch"
    /\ IF docFetches[i].aborted
       THEN /\ docFetches' = [docFetches EXCEPT ![i].stage = "aborted"]
            /\ UNCHANGED contentUrlUpdate
       ELSE CASE kind = "image" ->
                   /\ docFetches' = [docFetches EXCEPT ![i].stage = "blob"]
                   /\ UNCHANGED contentUrlUpdate
              [] kind = "other" ->
                   /\ docFetches' = [docFetches EXCEPT ![i].stage = "done"]
                   /\ contentUrlUpdate' = << -1 >>
              [] OTHER ->
                   /\ docFetches' = [docFetches EXCEPT ![i].stage = "failed"]
                   /\ UNCHANGED contentUrlUpdate
    /\ UNCHANGED <<viewingDoc, contentUrl, objectUrls, revokedUrls>>
    /\ UNCHANGED <<selectVars, formVars, proxyVars, dashVars>>

\* res.blob() settles and the second .then runs: URL.createObjectURL(blob),
\* setContentUrl(url); an aborted signal rejects the read with AbortError
BlobRead(i, ok) ==
    /\ i \in 1..Len(docFetches)
    /\ docFetches[i].stage = "blob"
    /\ IF docFetches[i].aborted
       THEN /\ docFetches' = [docFetches EXCEPT ![i].stage = "aborted"]
            /\ UNCHANGED <<contentUrlUpdate, objectUrls>>
       ELSE IF ok
       THEN /\ docFetches' = [docFetches EXCEPT ![i].stage = "done"]
            /\ objectUrls' = objectUrls \cup {Cardinality(objectUrls) + 1}
            /\ contentUrlUpdate' = << Cardinality(objectUrls) + 1 >>
       ELSE /\ docFetches' = [docFetches EXCEPT ![i].stage = "failed"]
            /\ UNCHANGED <<contentUrlUpdate, objectUrls>>
    /\ UNCHANGED <<viewingDoc, contentUrl, revokedUrls>>
    /\ UNCHANGED <<selectVars, formVars, proxyVars, dashVars>>

\* the render of the batched setContentUrl: the [contentUrl] effect's cleanup revokes the
\* previous contentUrl if it is an object URL
RenderModal ==
    /\ viewingDoc # <<>>
    /\ contentUrlUpdate # <<>>
    /\ contentUrl' = contentUrlUpdate[1]
    /\ contentUrlUpdate' = <<>>
    /\ revokedUrls' = IF contentUrl > 0 /\ contentUrl # contentUrlUpdate[1]
                      THEN revokedUrls \cup {contentUrl} ELSE revokedUrls
    /\ UNCHANGED <<viewingDoc, docFetches, objectUrls>>
    /\ UNCHANGED <<selectVars, formVars, proxyVars, dashVars>>

\* onClose (the close button, Escape, a mousedown outside): setViewingDoc(null), a
\* discrete event rendered at once, which unmounts the modal
CloseViewer ==
    /\ viewingDoc # <<>>
    /\ ModalUnmounted
    /\ UNCHANGED <<selectVars, formVars, proxyVars, dashVars>>

InitModal ==
    /\ viewingDoc = <<>>
    /\ contentUrl = 0
    /\ contentUrlUpdate = <<>>
    /\ docFetches = <<>>
    /\ objectUrls = {}
    /\ revokedUrls = {}

\* ------------------------------------------------- app/api/[...proxy]/route.ts
\* the methods that reach proxyHandler: the exported GET, POST, PUT, DELETE, and HEAD,
\* which the framework serves through GET
ProxyMethods == {"GET", "HEAD", "POST", "PUT", "DELETE"}

RequestBodies == {"none", "payload"}

UpstreamStatuses == {200, 201, 400, 404, 500, 502}

UpstreamBodies == {"a", "b"}

\* body: req.method !== 'GET' && req.method !== 'HEAD' ? req.body : undefined
ForwardedBody_Always(method, body) == body

ForwardedBody(method, body) == IF method # "GET" /\ method # "HEAD" THEN body ELSE "none"

\* proxyHandler up to its await: the 500 answer, or the fetch to the backend
ProxyRequest(method, body) ==
    /\ proxyReq = <<>>
    /\ proxyReq' = << [method |-> method, body |-> body] >>
    /\ IF BACKEND_URL = ""
       THEN /\ proxyRes' = << [status |-> 500,
                               body |-> "Backend API URL is not configured on the server."] >>
            /\ UNCHANGED upstreamReq
       ELSE /\ upstreamReq' = << [method |-> method, body |-> ForwardedBody(method, body)] >>
            /\ UNCHANGED proxyRes
    /\ UNCHANGED BACKEND_URL
    /\ UNCHANGED <<selectVars, formVars, modalVars, dashVars>>

\* the status new NextResponse(response.body, { status: response.status, ... }) carries
RelayedStatus_ErrorsAs502(status) == IF status >= 400 THEN 502 ELSE status

RelayedStatus(status) == status

\* proxyHandler after its await: the fetch resolved with a response of any status
UpstreamResponds(status, body) ==
    /\ upstreamReq # <<>>
    /\ proxyRes = <<>>
    /\ proxyRes' = << [status |-> RelayedStatus(status), body |-> body] >>
    /\ UNCHANGED <<BACKEND_URL, proxyReq, upstreamReq>>
    /\ UNCHANGED <<selectVars, formVars, modalVars, dashVars>>

\* proxyHandler's catch: the fetch threw
UpstreamThrows ==
    /\ upstreamReq # <<>>
    /\ proxyRes = <<>>
    /\ proxyRes' = << [status |-> 502, body |-> "Error forwarding request to the backend."] >>
    /\ UNCHANGED <<BACKEND_URL, proxyReq, upstreamReq>>
    /\ UNCHANGED <<selectVars, formVars, modalVars, dashVars>>

\* the handler has returned; the route is ready for the next request
ProxyReturns ==
    /\ proxyRes # <<>>
    /\ proxyReq' = <<>>
    /\ upstreamReq' = <<>>
    /\ proxyRes' = <<>>
    /\ UNCHANGED BACKEND_URL
    /\ UNCHANGED <<selectVars, formVars, modalVars, dashVars>>

InitProxy ==
    /\ BACKEND_URL \in {"", "http://backend"}
    /\ proxyReq = <<>>
    /\ upstreamReq = <<>>
    /\ proxyRes = <<>>

\* ------------------------------------------------------------------ DashboardView
\* the search input of the dashboard, onChange={e => setSearchTerm(e.target.value)}: the
\* render it causes runs the list effect
SetDashSearchTerm(t) ==
    /\ view = "dashboard"
    /\ t # dashFilter.searchTerm
    /\ Len(dashRequests) < MaxReq
    /\ ListEffect([dashFilter EXCEPT !.searchTerm = t])
    /\ UNCHANGED <<dashEmployees, dataRefreshKey>>
    /\ UNCHANGED <<selectVars, formVars, modalVars, proxyVars>>

\* the four cards: handleCardClick(type, status, cardName)
Cards == { [type |-> "", status |-> ""],
           [type |-> "has_warrant", status |-> "Active"],
           [type |-> "no_warrant", status |-> "Inactive"],
           [type |-> "expiring_soon_or_expired", status |-> ""] }

\* handleCardClick: setFilterType(type); setStatusFilter(status), one render; the list
\* effect runs if one of the two changed
HandleCardClick(card) ==
    /\ view = "dashboard"
    /\ card.type # dashFilter.filterType \/ card.status # dashFilter.statusFilter
    /\ Len(dashRequests) < MaxReq
    /\ ListEffect([dashFilter EXCEPT !.filterType = card.type, !.statusFilter = card.status])
    /\ UNCHANGED <<dashEmployees, dataRefreshKey>>
    /\ UNCHANGED <<selectVars, formVars, modalVars, proxyVars>>

\* the promise chain of the list effect: kind "ok" is a body with an employees array,
\* "other" any other JSON body, "error" a rejected fetch or an unreadable body
ListResponse(i, kind) ==
    /\ view = "dashboard"
    /\ i \in 1..Len(dashRequests)
    /\ dashRequests[i].status = "pending"
    /\ dashRequests' = [dashRequests EXCEPT
                          ![i].status = CASE kind = "ok" -> "applied"
                                          [] kind = "other" -> "ignored"
                                          [] OTHER -> "failed"]
    /\ dashEmployees' = IF kind = "ok" THEN ServerList(dashRequests[i].filter)
                        ELSE dashEmployees
    /\ dashIsLoading' = FALSE
    /\ UNCHANGED <<dashFilter, dataRefreshKey>>
    /\ UNCHANGED <<selectVars, formVars, modalVars, proxyVars>>

\* DashboardView not yet mounted: the initial values of its hooks
InitDashboard ==
    /\ dataRefreshKey = 0
    /\ dashFilter = NoFilter
    /\ dashEmployees = <<>>
    /\ dashIsLoading = TRUE
    /\ dashRequests = <<>>

\* the page, served behind a configured proxy
Init == InitSelect /\ InitForm /\ InitModal /\ InitProxy /\ InitDashboard /\ BACKEND_URL # ""

\* the form mounted without / with a record to edit
InitNew == Init /\ employeeToEditId = 0

InitEdit == Init /\ employeeToEditId # 0

NextSelect ==
    \/ \E t \in TypedTerms : Edit(t)
    \/ TimerFire
    \/ HandleScroll
    \/ Render
    \/ \E i \in 1..MaxReq, o \in {"ok", "error", "abort"}, m \in BOOLEAN : Settle(i, o, m)
    \/ Focus
    \/ Blur
    \/ HandleBackFromForm

\* the picker is rendered in new-record mode only
SpecSelect == InitNew /\ [][NextSelect]_vars

TypeValues == {"", "1", "2", "3"}

\* base identity, catalogs, record and the attachment rows with their document types
NextForm ==
    \/ \E cat \in StatusCatalogs : LoadStatuses(cat)
    \/ LoadDocTypes
    \/ \E st \in {"", "1", "2"}, docs \in HydrateDocs : Hydrate(st, docs)
    \/ \E id \in HrIds \cup {""} : HandleEmployeeSelect(id)
    \/ \E id \in HrIds : ProfileResponse(id)
    \/ AddNewDocumentRow
    \/ \E i \in 1..MaxDocs, v \in TypeValues : HandleNewDocumentChange(i, "doc_type_id", v)
    \/ \E i \in 1..MaxDocs : RemoveNewDocumentRow(i)
    \/ \E d \in {11, 12} : HandleDeleteExistingDoc(d)

SpecForm == Init /\ [][NextForm]_vars

\* submission: the rows with their types and expiry dates, a pick of a file the form
\* rejects, handleSubmit and its response
NextSubmit ==
    \/ LoadDocTypes
    \/ Hydrate("2", <<>>)
    \/ HandleEmployeeSelect("42")
    \/ ProfileResponse("42")
    \/ AddNewDocumentRow
    \/ \E i \in 1..MaxDocs, v \in TypeValues : HandleNewDocumentChange(i, "doc_type_id", v)
    \/ \E i \in 1..MaxDocs, v \in ExpiryValues : HandleNewDocumentChange(i, "expiry", v)
    \/ \E i \in 1..MaxDocs : HandleNewDocumentChange(i, "file", "text/plain")
    \/ HandleSubmit
    \/ \E k \in {"ok", "error", "rejected"} : SubmitResponse(k)

SpecSubmit == Init /\ [][NextSubmit]_vars

\* the legislation checkboxes of Pending and Persisted warrant-decision attachments
NextLegislation ==
    \/ LoadDocTypes
    \/ \E docs \in HydrateDocs : Hydrate("2", docs)
    \/ AddNewDocumentRow
    \/ \E i \in 1..MaxDocs, v \in TypeValues : HandleNewDocumentChange(i, "doc_type_id", v)
    \/ \E i \in 1..MaxDocs, l \in LegislationIds :
          HandleNewDocumentChange(i, "legislation_ids", l)
    \/ \E d \in {11, 12}, l \in LegislationIds : HandleExistingDocLegislationChange(d, l)

SpecLegislation == InitEdit /\ [][NextLegislation]_vars

\* ------------------------------------------------------------------ claims
\* the in-order concatenation of pages 1..k of q
RECURSIVE PagesUpTo(_, _)
PagesUpTo(q, k) == IF k = 0 THEN <<>> ELSE PagesUpTo(q, k - 1) \o ServerPage(q, k)

\* C1: the step in which a cancelled request (signal aborted while the fetch was
\* outstanding) settles leaves employees and hasMore as they were.
C1_CancelledDiscarded ==
    [][\A i \in 1..Len(requests) :
         (Pending(i) /\ requests[i].aborted /\ requests'[i].status # "pending")
            => (employees' = employees /\ hasMore' = hasMore)]_vars

\* C1 witness: request i was cancelled by the call that issued j, j completed first
\* and filled the list, and i settled afterwards.
C1_Witness ==
    \E i, j \in 1..Len(requests) :
        /\ i < j
        /\ requests[i].status = "discarded"
        /\ requests[j].status = "applied"
        /\ employees # <<>>

\* C2 (as claimed): at most one request that is not cancelled is outstanding, and
\* every fetchEmployees call issues its request instead of dropping it.
C2_OneLiveAndIssued ==
    /\ Cardinality(Live) <= 1
    /\ lastCall # NoCall => lastCall[1].issued

\* C3 (as claimed): the firing of the debounce timer issues exactly one request, a
\* first-page query for the final text, in any state of the control.
C3_OneFetchPerBurst ==
    [][(timer # <<>> /\ timer' = <<>>) =>
         /\ Len(requests') = Len(requests) + 1
         /\ requests'[Len(requests')].search = searchTerm
         /\ requests'[Len(requests')].page = 1
         /\ requests'[Len(requests')].isNewSearch]_vars

\* C4 (as claimed): employees is the concatenation of pages 1..k, k <= page, of the
\* text of the most recent firing of the debounce timer.
C4_PagesOfCurrentQuery ==
    IF firedTerm = <<>>
    THEN employees = <<>>
    ELSE \E k \in 0..page : employees = PagesUpTo(firedTerm[1], k)


\* the catalogs the derived status needs: both status names and a judicial-card type
CatalogsLoaded ==
    /\ {"Active", "Inactive"} \subseteq statuses
    /\ judicialCardDocTypeId # 0

\* some Persisted or Pending attachment has the judicial-card type
HasJudicialCard ==
    \/ \E i \in 1..Len(existingDocuments) :
          existingDocuments[i].doc_type_id = judicialCardDocTypeId
    \/ \E i \in 1..Len(newDocuments) :
          ParseInt(newDocuments[i].doc_type_id) = judicialCardDocTypeId

NonMiscTypeIds ==
    {docTypes.all_types[i].system_id :
        i \in {j \in 1..Len(docTypes.all_types) : ~IncludesOther(docTypes.all_types[j].name)}}

\* how many attachments, Persisted and Pending together, hold type id t
Holders(t) ==
    Cardinality({i \in 1..Len(existingDocuments) : existingDocuments[i].doc_type_id = t})
    + Cardinality({i \in 1..Len(newDocuments) : ParseInt(newDocuments[i].doc_type_id) = t})

OneOfEachType == \A t \in NonMiscTypeIds : Holders(t) <= 1

ExpiryMissing(i) ==
    /\ newDocuments[i].doc_type_id # ""
    /\ ParseInt(newDocuments[i].doc_type_id) \in expiryDocTypeIds
    /\ newDocuments[i].expiry = ""

\* C7: a submit with no employee_id stops with "An employee must be selected."; otherwise a
\* submit with a Pending row of an expiry-tracked type and no expiry date stops with the
\* message naming the type of the first such row in list order; in both cases no request
\* is issued; otherwise (rows of untracked types may have no expiry date) the request is sent.
C7_SubmitValidation ==
    [][HandleSubmit =>
         IF formData.employee_id = ""
         THEN /\ error' = "An employee must be selected."
              /\ submission' = <<>> /\ ~isSubmitting'
         ELSE IF \E i \in 1..Len(newDocuments) : ExpiryMissing(i)
         THEN /\ \E i \in 1..Len(newDocuments) :
                    /\ ExpiryMissing(i)
                    /\ \A j \in 1..(i - 1) : ~ExpiryMissing(j)
                    /\ error' = "Expiry date is required for document type \""
                                 \o newDocuments[i].doc_type_name \o "\"."
              /\ submission' = <<>> /\ ~isSubmitting'
         ELSE submission' # <<>> /\ isSubmitting']_vars

\* C7 witness: two rows of different expiry-tracked types, neither with a date, and the
\* message of a submit naming the first row's type; no request was issued
C7_Witness ==
    /\ formData.employee_id # ""
    /\ Len(newDocuments) = 2
    /\ ExpiryMissing(1) /\ ExpiryMissing(2)
    /\ newDocuments[1].doc_type_name # newDocuments[2].doc_type_name
    /\ error = "Expiry date is required for document type \""
                \o newDocuments[1].doc_type_name \o "\"."
    /\ submission = <<>> /\ ~isSubmitting

\* the ids of the Persisted attachments on display
ExistingIds == {existingDocuments[i].system_id : i \in 1..Len(existingDocuments)}

\* C8: after every step no id is both on display as Persisted and queued for deletion,
\* no id is queued twice, the queue only grows (a removed attachment never comes back),
\* and an attachment that leaves the display is in the queue.
C8_DeletedOnce ==
    [][/\ ExistingIds' \cap Range(deletedDocIds') = {}
       /\ Cardinality(Range(deletedDocIds')) = Len(deletedDocIds')
       /\ Len(deletedDocIds') >= Len(deletedDocIds)
       /\ SubSeq(deletedDocIds', 1, Len(deletedDocIds)) = deletedDocIds
       /\ ExistingIds' \cap Range(deletedDocIds) = {}
       /\ ExistingIds \ ExistingIds' \subseteq Range(deletedDocIds')]_vars

\* C8 witness: of two Persisted attachments one was deleted and the other is on display
C8_Witness ==
    /\ Len(deletedDocIds) = 1
    /\ Len(existingDocuments) = 1
    /\ existingDocuments[1].system_id # deletedDocIds[1]

\* C9: when a profile arrives the form holds its fields and is unlocked; a call of
\* handleEmployeeSelect with the empty id locks the form and empties the seeded fields.
C9_SelectSeedsOrClears ==
    [][/\ \A id \in HrIds :
             ProfileResponse(id) => /\ formData'.employee_id = id
                                    /\ formData'.name_en = id
                                    /\ ~isFormLocked'
       /\ HandleEmployeeSelect("") => /\ isFormLocked'
                                      /\ formData'.employee_id = ""
                                      /\ formData'.name_en = ""]_vars

\* the legislation ids of a list, as a set
Legislations(ids) == {ids[i] : i \in 1..Len(ids)}

\* C10: after the same legislation id was toggled twice in a row on one attachment, that
\* attachment has the legislation ids it had before (as a set) and every other attachment,
\* Pending or Persisted, is as it was.
C10_ToggleTwice ==
    (toggled # <<>> /\ toggled[1].count = 2) =>
        LET t == toggled[1] IN
        /\ Len(newDocuments) = Len(t.new)
        /\ Len(existingDocuments) = Len(t.existing)
        /\ \A i \in 1..Len(newDocuments) :
              IF t.kind = "new" /\ t.key = i
              THEN /\ Legislations(newDocuments[i].legislation_ids)
                         = Legislations(t.new[i].legislation_ids)
                   /\ [newDocuments[i] EXCEPT !.legislation_ids = <<>>]
                         = [t.new[i] EXCEPT !.legislation_ids = <<>>]
              ELSE newDocuments[i] = t.new[i]
        /\ \A i \in 1..Len(existingDocuments) :
              IF t.kind = "existing" /\ t.key = existingDocuments[i].system_id
              THEN /\ Legislations(existingDocuments[i].legislation_ids)
                         = Legislations(t.existing[i].legislation_ids)
                   /\ [existingDocuments[i] EXCEPT !.legislation_ids = <<>>]
                         = [t.existing[i] EXCEPT !.legislation_ids = <<>>]
              ELSE existingDocuments[i] = t.existing[i]

\* C10 witness: an id that a Pending warrant-decision row already had was toggled twice,
\* with another Pending row and a Persisted attachment with legislations next to it
C10_Witness ==
    /\ toggled # <<>>
    /\ toggled[1].count = 2
    /\ toggled[1].kind = "new"
    /\ Len(newDocuments) = 2
    /\ Includes(toggled[1].new[toggled[1].key].legislation_ids, ToStr(toggled[1].leg))
    /\ \E i \in 1..Len(existingDocuments) : existingDocuments[i].legislation_ids # <<>>

\* C11: when a submission fails (the request settles and the form stays mounted), the
\* scalar fields, both attachment lists and deletedDocIds are as they were, an error
\* message is on display and isSubmitting is false again, whether the failure is a
\* non-success response or a rejected fetch.
C11_FailedSubmitRecovers ==
    [][(submission # <<>> /\ submission' = <<>> /\ view' = "form") =>
          /\ UNCHANGED <<formData, newDocuments, existingDocuments, deletedDocIds>>
          /\ error' # ""
          /\ ~isSubmitting']_vars

\* every handler of the form, with the inputs of one warrant-decision record
NextRecord ==
    \/ \E cat \in StatusCatalogs : LoadStatuses(cat)
    \/ LoadDocTypes
    \/ Hydrate("2", ServerDocs)
    \/ HandleEmployeeSelect("42")
    \/ ProfileResponse("42")
    \/ AddNewDocumentRow
    \/ \E i \in 1..MaxDocs, v \in {"2", "3"} : HandleNewDocumentChange(i, "doc_type_id", v)
    \/ \E i \in 1..MaxDocs : HandleNewDocumentChange(i, "legislation_ids", 1)
    \/ \E i \in 1..MaxDocs : RemoveNewDocumentRow(i)
    \/ HandleExistingDocLegislationChange(12, 1)
    \/ \E d \in {11, 12} : HandleDeleteExistingDoc(d)
    \/ HandleSubmit
    \/ \E k \in {"ok", "error", "rejected"} : SubmitResponse(k)

SpecRecord == Init /\ [][NextRecord]_vars

\* C12: for a Viewer no step issues a create or update request, none changes the Pending
\* rows or deletedDocIds, and the Persisted attachments change only when the edited
\* record arrives from the server.
C12_ViewerReadOnly ==
    [][isViewer =>
         /\ submission' = <<>>
         /\ UNCHANGED <<newDocuments, deletedDocIds>>
         /\ existingDocuments' # existingDocuments
               => (~hydrated /\ hydrated' /\ existingDocuments = <<>>)]_vars

\* C12 witness: a Viewer looks at an edited record, unlocked, with its catalogs and its
\* Persisted attachments loaded, a warrant-decision attachment with legislations among them
C12_Witness ==
    /\ isViewer
    /\ employeeToEditId # 0
    /\ ~isFormLocked
    /\ hydrated
    /\ warrantDecisionDocTypeId # 0
    /\ \E i \in 1..Len(existingDocuments) :
          /\ existingDocuments[i].doc_type_id = warrantDecisionDocTypeId
          /\ existingDocuments[i].legislation_ids # <<>>
    /\ newDocuments = <<>> /\ deletedDocIds = <<>> /\ submission = <<>>

\* C13: the step that unmounts the picker leaves no debounce timer armed and no
\* outstanding request uncancelled, and nothing is applied to the picker afterwards.
C13_TeardownCancels ==
    [][/\ (view = "form" /\ view' # "form") =>
             /\ timer' = <<>>
             /\ \A i \in 1..Len(requests') :
                   requests'[i].status = "pending" => requests'[i].aborted
       /\ view # "form" => UNCHANGED <<employees, hasMore, page, timer>>]_vars

\* C14: when a request that was not cancelled fails, isLoading becomes false, the list is
\* what it was before the handler that issued the request ran, and no request is issued.
C14_FailedFetchKeepsList ==
    [][\A i \in 1..Len(requests) :
          (Pending(i) /\ view = "form" /\ requests'[i].status = "failed") =>
              /\ ~isLoading'
              /\ employees' = requests[i].before
              /\ Len(requests') = Len(requests)]_vars

\* the document viewer over an edited record
NextModal ==
    \/ LoadDocTypes
    \/ \E docs \in HydrateDocs : Hydrate("2", docs)
    \/ \E d \in {11, 12} : OpenViewer(d)
    \/ \E i \in 1..MaxViews, k \in {"image", "other", "notok", "error"} : DocResponse(i, k)
    \/ \E i \in 1..MaxViews, ok \in BOOLEAN : BlobRead(i, ok)
    \/ RenderModal
    \/ CloseViewer
    \/ HandleBackFromForm

SpecModal == InitEdit /\ [][NextModal]_vars

\* the proxy route, with and without its configuration
InitServer ==
    /\ InitSelect /\ InitForm /\ InitModal /\ InitProxy /\ InitDashboard
    /\ employeeToEditId = 0 /\ ~isViewer

NextProxy ==
    \/ \E m \in ProxyMethods, b \in RequestBodies : ProxyRequest(m, b)
    \/ \E st \in UpstreamStatuses, b \in UpstreamBodies : UpstreamResponds(st, b)
    \/ UpstreamThrows
    \/ ProxyReturns

SpecProxy == InitServer /\ [][NextProxy]_vars

\* C15: once the viewer is closed, every object URL it created has been revoked.
C15_NoObjectUrlLeak ==
    viewingDoc = <<>> => objectUrls \subseteq revokedUrls

\* C16: without BACKEND_URL the answer is the fixed 500 and no fetch is made; when the fetch
\* throws the answer is the fixed 502; otherwise the answer carries the status and body of
\* the upstream response, whatever the status; and the fetch carries the request's body
\* unless the method is GET or HEAD.
C16_ProxyRelays ==
    [][/\ (proxyReq = <<>> /\ proxyReq' # <<>>) =>
             IF BACKEND_URL = ""
             THEN /\ upstreamReq' = <<>>
                  /\ proxyRes' # <<>> /\ proxyRes'[1].status = 500
             ELSE /\ proxyRes' = <<>>
                  /\ upstreamReq' # <<>>
                  /\ upstreamReq'[1].method = proxyReq'[1].method
                  /\ upstreamReq'[1].body =
                        IF proxyReq'[1].method \in {"GET", "HEAD"}
                        THEN "none" ELSE proxyReq'[1].body
       /\ \A st \in UpstreamStatuses, b \in UpstreamBodies :
             UpstreamResponds(st, b) => proxyRes' = << [status |-> st, body |-> b] >>
       /\ UpstreamThrows =>
             proxyRes' = << [status |-> 502,
                             body |-> "Error forwarding request to the backend."] >>
       /\ (proxyRes = <<>> /\ proxyRes' # <<>>
              /\ proxyRes'[1].body = "Error forwarding request to the backend.")
             => UpstreamThrows]_vars

\* C16 witness: an upstream 500 answer to a POST that carried its body was relayed as 500
C16_Witness ==
    /\ proxyReq # <<>> /\ proxyReq[1].method = "POST" /\ proxyReq[1].body = "payload"
    /\ upstreamReq # <<>> /\ upstreamReq[1].body = "payload"
    /\ proxyRes # <<>> /\ proxyRes[1].status = 500 /\ proxyRes[1].body \in UpstreamBodies

\* the lock as the mode requires it: a new record is unlocked only with an employee_id, an
\* edited record is always unlocked
LockMatchesMode ==
    IF employeeToEditId = 0
    THEN ~isFormLocked => formData.employee_id # ""
    ELSE ~isFormLocked

NextPick ==
    \/ \E t \in TypedTerms : Edit(t)
    \/ TimerFire
    \/ Render
    \/ \E i \in 1..MaxReq, o \in {"ok", "abort"}, m \in BOOLEAN : Settle(i, o, m)
    \/ Focus
    \/ Blur
    \/ HandleScroll
    \/ \E i \in 1..MaxReq : HandleSelect(i)
    \/ \E id \in HrIds : ProfileResponse(id)

SpecPick == InitNew /\ [][NextPick]_vars

\* C18: a text edit, focus, blur or scroll never invokes the selection callback, and a text
\* edit leaves the form without a confirmed employee: locked, or with no employee_id.
C18_PickOnlyClearedOnEdit ==
    [][/\ ((\E t \in TypedTerms : Edit(t)) \/ Focus \/ Blur \/ HandleScroll)
             => profileFetches' = profileFetches
       /\ (\E t \in TypedTerms : Edit(t))
             => (isFormLocked' \/ formData'.employee_id = "")]_vars

\* C19: a next-page request is issued only when hasMore is true, isLoading is false and no
\* request is outstanding; a successful next-page response appends its items to the list as
\* it is; a successful fresh-query response replaces the list.
C19_Pagination ==
    [][/\ (/\ Len(requests') = Len(requests) + 1
           /\ ~requests'[Len(requests')].isNewSearch)
             => (hasMore /\ ~isLoading /\ \A i \in 1..Len(requests) : ~Pending(i))
       /\ \A i \in 1..Len(requests) :
             (Pending(i) /\ view = "form" /\ requests'[i].status = "applied") =>
                 employees' = IF requests[i].isNewSearch
                              THEN ServerPage(requests[i].search, requests[i].page)
                              ELSE employees \o ServerPage(requests[i].search,
                                                           requests[i].page)]_vars

\* the ids of the catalog entries named as the warrant-decision type
WarrantTypeIds ==
    {docTypes.all_types[i].system_id :
        i \in {j \in 1..Len(docTypes.all_types) :
                 docTypes.all_types[j].name = "Warrant Decisions"}}

\* C20: the step that issues the request of a valid submit issues one request, PUT with the
\* record's id exactly in edit mode and POST otherwise; updated_documents is present only
\* in edit mode and is then the current legislation ids of exactly the Persisted
\* warrant-decision attachments on display; deleted_documents is deletedDocIds.
C20_SubmitPayload ==
    [][(submission' # <<>> /\ submission' # submission) =>
          LET d == submission'[1] IN
          /\ submission = <<>>
          /\ Len(submission') = 1
          /\ d.method = IF employeeToEditId # 0 THEN "PUT" ELSE "POST"
          /\ d.id = employeeToEditId
          /\ d.has_updated_documents = (employeeToEditId # 0)
          /\ d.updated_documents =
                IF employeeToEditId = 0 THEN {}
                ELSE {[system_id |-> existingDocuments[i].system_id,
                       legislation_ids |-> existingDocuments[i].legislation_ids] :
                         i \in {j \in 1..Len(existingDocuments) :
                                  existingDocuments[j].doc_type_id \in WarrantTypeIds}}
          /\ d.deleted_documents = deletedDocIds]_vars

\* C20 witness: an update in flight for a record of which one attachment was deleted and
\* whose warrant-decision attachment had a legislation unticked
C20_Witness ==
    /\ submission # <<>>
    /\ submission[1].method = "PUT"
    /\ submission[1].deleted_documents = <<11>>
    /\ submission[1].updated_documents = {[system_id |-> 12, legislation_ids |-> <<>>]}

\* the required attribute of the controls of the Pending rows (document type, file, and the
\* expiry date where it is shown): what the browser checks before it fires the submit event
RequiredFilled ==
    \A i \in 1..Len(newDocuments) :
        /\ fileInputs[i] # ""
        /\ newDocuments[i].doc_type_id # ""
        /\ ParseInt(newDocuments[i].doc_type_id) \in expiryDocTypeIds
              => newDocuments[i].expiry # ""

\* the Pending rows with their files, types and expiry dates, and their submission
NextAttach ==
    \/ LoadDocTypes
    \/ Hydrate("2", <<>>)
    \/ HandleEmployeeSelect("42")
    \/ ProfileResponse("42")
    \/ AddNewDocumentRow
    \/ \E i \in 1..MaxDocs, v \in {"1", "3"} : HandleNewDocumentChange(i, "doc_type_id", v)
    \/ \E i \in 1..MaxDocs, v \in ExpiryValues : HandleNewDocumentChange(i, "expiry", v)
    \/ \E i \in 1..MaxDocs : HandleNewDocumentChange(i, "file", "image/png")
    \/ \E i \in 1..MaxDocs : RemoveNewDocumentRow(i)
    \/ HandleSubmit
    \/ \E k \in {"ok", "error", "rejected"} : SubmitResponse(k)

SpecAttach == Init /\ [][NextAttach]_vars

\* C21 (as claimed): the request of a submit that passes validation, made with every
\* required control of the rows filled, has one new_documents entry for each Pending row
\* of newDocuments.
C21_AllPendingSerialized ==
    [][(Len(submission') > Len(submission) /\ RequiredFilled) =>
          {e.index : e \in submission'[Len(submission')].new_documents}
             = 0..(Len(newDocuments) - 1)]_vars

\* the files, types and legislation checkboxes of the Pending rows, under a catalog with
\* and without a warrant-decision type
NextFiles ==
    \/ \E cat \in DocTypeCatalogs : LoadDocTypesOf(cat)
    \/ Hydrate("2", <<>>)
    \/ AddNewDocumentRow
    \/ \E i \in 1..MaxDocs, v \in {"2", "3"} : HandleNewDocumentChange(i, "doc_type_id", v)
    \/ \E i \in 1..MaxDocs, v \in PickedFileTypes : HandleNewDocumentChange(i, "file", v)
    \/ \E i \in 1..MaxDocs : HandleNewDocumentChange(i, "legislation_ids", 1)

SpecFiles == InitEdit /\ [][NextFiles]_vars

\* C22: a pick of a file whose MIME type is not image/jpeg, image/png or application/pdf
\* sets the validation message and leaves newDocuments unchanged; a change of a row's type
\* empties the row's legislation ids unless the new type is the warrant-decision type; and
\* in every state the file of each Pending row is none or of one of the three types.
C22_FileAndTypeChange ==
    /\ [](\A i \in 1..Len(newDocuments) :
             newDocuments[i].file \in {"", "image/jpeg", "image/png", "application/pdf"})
    /\ [][/\ \A i \in 1..MaxDocs, v \in PickedFileTypes :
                (/\ HandleNewDocumentChange(i, "file", v)
                 /\ v \notin {"image/jpeg", "image/png", "application/pdf"})
                   => (error' = "Invalid file type." /\ newDocuments' = newDocuments)
          /\ \A i \in 1..MaxDocs, v \in TypeValues :
                HandleNewDocumentChange(i, "doc_type_id", v) =>
                    newDocuments'[i].legislation_ids =
                        IF \E t \in WarrantTypeIds : ToStr(t) = v
                        THEN newDocuments[i].legislation_ids ELSE <<>>]_vars

\* C22 witness: a row that holds an accepted file shows the message of a later pick that was
\* rejected (the input emptied, the row as it was), next to a row whose type was changed
C22_Witness ==
    /\ error = "Invalid file type."
    /\ \E i \in 1..Len(newDocuments) :
          newDocuments[i].file = "image/png" /\ fileInputs[i] = ""
    /\ \E i \in 1..Len(newDocuments) : newDocuments[i].doc_type_id = "3"

\* GET /api/statuses answering without the 'Inactive' or without the 'Active' entry
PartialStatusCatalogs == { {"Active"}, {"Inactive"} }

\* the derived status under complete and incomplete status catalogs
NextCatalogs ==
    \/ \E cat \in StatusCatalogs \cup PartialStatusCatalogs : LoadStatuses(cat)
    \/ LoadDocTypes
    \/ \E st \in {"", "1", "2"}, docs \in HydrateDocs : Hydrate(st, docs)
    \/ HandleEmployeeSelect("42")
    \/ ProfileResponse("42")
    \/ AddNewDocumentRow
    \/ \E i \in 1..MaxDocs, v \in TypeValues : HandleNewDocumentChange(i, "doc_type_id", v)
    \/ \E i \in 1..MaxDocs : RemoveNewDocumentRow(i)
    \/ \E d \in {11, 12} : HandleDeleteExistingDoc(d)

SpecCatalogs == Init /\ [][NextCatalogs]_vars

\* C23 (as claimed): while the status catalog lacks 'Active' or lacks 'Inactive', no step
\* other than the arrival of a record or of a profile changes status_id, whatever the
\* attachments.
C23_IncompleteCatalog ==
    [][(/\ ~({"Active", "Inactive"} \subseteq statuses')
        /\ hydrated' = hydrated
        /\ profileFetches' = profileFetches)
          => formData'.status_id = formData.status_id]_vars

\* C24: the arrival of a profile sets the scalar fields to those of that profile, whichever
\* call was issued last and whatever else is outstanding, and no other step but the
\* arrival of the edited record changes them: after two overlapping calls the fields are
\* those of the response that arrived last.
C24_LastResponseWins ==
    [][/\ \A id \in HrIds :
             ProfileResponse(id) => (formData'.employee_id = id /\ formData'.name_en = id)
       /\ (profileFetches \subseteq profileFetches' /\ hydrated' = hydrated)
             => /\ formData'.employee_id = formData.employee_id
                /\ formData'.name_en = formData.name_en]_vars

\* C24 witness: the most recent call was for "43", both profiles have arrived, and the
\* fields are those of "42", whose response arrived last
C24_Witness ==
    /\ employeeToEditId = 0
    /\ lastIssued = << "43" >>
    /\ profileFetches = {}
    /\ ~isFormLocked
    /\ formData.employee_id = "42"
    /\ formData.name_en = "42"

\* the dashboard after the form is left: the search text, the cards, the list responses
NextDashboard ==
    \/ HandleBackFromForm
    \/ \E t \in TypedTerms : SetDashSearchTerm(t)
    \/ \E card \in Cards : HandleCardClick(card)
    \/ \E i \in 1..MaxReq, k \in {"ok", "other", "error"} : ListResponse(i, k)

SpecDashboard == Init /\ [][NextDashboard]_vars

\* C25 (as claimed): when every list request has been answered with a list, the list on
\* display is the answer for the current searchTerm, statusFilter and filterType.
C25_LatestFilterShown ==
    (/\ view = "dashboard"
     /\ dashRequests # <<>>
     /\ \A i \in 1..Len(dashRequests) : dashRequests[i].status = "applied")
        => dashEmployees = ServerList(dashFilter)

\* C26 (as claimed): with no fetch outstanding, the form unlocked and the catalogs loaded,
\* status_id is the Active id if a Persisted or Pending attachment has the judicial-card
\* type and the Inactive id otherwise.
C26_QuiescentStatus ==
    (/\ view = "form"
     /\ profileFetches = {}
     /\ submission = <<>>
     /\ employeeToEditId # 0 => hydrated
     /\ ~isFormLocked
     /\ CatalogsLoaded)
        => formData.status_id = IF HasJudicialCard THEN ToStr(StatusId("Active"))
                                ELSE ToStr(StatusId("Inactive"))

\* C27 (as claimed): while the picker is mounted and a request whose signal is not aborted
\* is outstanding, isLoading is true.
C27_LoadingWhileLive ==
    (view = "form" /\ Live # {}) => isLoading

\* C28 (as claimed): in the request a submit issues, every new_documents entry whose type
\* is not expiry-tracked has an empty expiry.
C28_UntrackedExpiryEmpty ==
    [][Len(submission') > Len(submission) =>
          \A e \in submission'[Len(submission')].new_documents :
              ParseInt(e.doc_type_id) \notin expiryDocTypeIds => e.expiry = ""]_vars

\* C29: at most one create or update request is in flight; no request is issued while
\* isSubmitting is true; and the step in which a request is answered with success
\* increments dataRefreshKey by one (onFormSubmit) and leaves the page on the dashboard
\* (onBack), no other step changing dataRefreshKey.
C29_OneSubmission ==
    /\ [](Len(submission) <= 1)
    /\ [][/\ Len(submission') > Len(submission) => ~isSubmitting
          /\ SubmitResponse("ok") => /\ dataRefreshKey' = dataRefreshKey + 1
                                     /\ view' = "dashboard"
          /\ dataRefreshKey' # dataRefreshKey => /\ Len(submission') < Len(submission)
                                                 /\ dataRefreshKey' = dataRefreshKey + 1]_vars

\* C29 witness: a submission was answered with success: the form is left, the list is
\* refreshed once and nothing is in flight
C29_Witness ==
    /\ dataRefreshKey = 1
    /\ view = "dashboard"
    /\ submission = <<>>
    /\ dashRequests # <<>>

\* C30: in every state a Pending row with a legislation id has the type the catalog names
\* as the warrant-decision type; with a catalog that names none, no Pending row has any.
C30_LegislationOnlyOnWarrant ==
    \A i \in 1..Len(newDocuments) :
        newDocuments[i].legislation_ids # <<>> =>
            \E t \in WarrantTypeIds : newDocuments[i].doc_type_id = ToStr(t)

\* C30 witness: a row of the warrant-decision type with a legislation ticked, next to a row
\* of another type, which has none
C30_Witness ==
    /\ Len(newDocuments) = 2
    /\ newDocuments[1].doc_type_id = "2" /\ newDocuments[1].legislation_ids # <<>>
    /\ newDocuments[2].doc_type_id = "3" /\ newDocuments[2].legislation_ids = <<>>

====
